---- MODULE Spec2Model ----
(***************************************************************************)
(* Model of the sequence / routine engine of gpio_skill.py:                *)
(*   _resolve_template, _eval_condition, _apply_templates, sequence,       *)
(*   save_routine, run_routine, delete_routine, list_routines and the      *)
(*   part of dispatch the engine reaches.                                  *)
(*                                                                         *)
(* Text.  A Python str is a sequence of symbols.  The one-character        *)
(* symbols are the characters the engine gives a meaning to: the braces,   *)
(* the dot, the blank, the comparison characters and the digits.  Every    *)
(* other symbol is a word: a fixed non-empty run of letters (and "_").     *)
(* No word is a concatenation of other symbols, so two texts are equal as  *)
(* Python strings exactly when they are equal as sequences.                *)
(*                                                                         *)
(* Values.  A Python value is tagged with its type, because str(), the     *)
(* isinstance tests of _apply_templates and float() depend on it:          *)
(*   [t |-> "str", v |-> text]   [t |-> "int", v |-> n]                    *)
(*   [t |-> "bool", v |-> b]     [t |-> "none"]                            *)
(*   [t |-> "dict", v |-> record]   [t |-> "list", v |-> sequence]         *)
(*   [t |-> "float", v |-> <<numerator, denominator>>]                     *)
(* A dict is a TLA+ record: its keys are words.                            *)
(***************************************************************************)
EXTENDS Integers, Sequences, FiniteSets, TLC

\* The configuration file, the call stack of sequence, and what the last
\* top-level call returned; the input and the output of one call of the
\* Template Resolver or of the Condition Evaluator; the electrical level of
\* each pin (TRUE is high).
VARIABLES file, stack, ret, ein, eout, gpio

vars == <<file, stack, ret, ein, eout, gpio>>

\* ------------------------------------------------------------------ bounds

\* Longest step list handed to sequence.
MaxSteps == 2

\* Deepest nesting of sequence calls: stands for the interpreter's recursion
\* limit.
MaxDepth == 3

\* Most blanks put on either side of a comparison operator.
MaxPad == 1

\* --------------------------------------------------------------------- pins

\* The pins of the model: 17 (lamp), 27 (relay) and 5, which no device has.
Pins == {17, 27, 5}

AllLow == [p \in Pins |-> FALSE]

\* ------------------------------------------------------------------- text

Digits == <<"0", "1", "2", "3", "4", "5", "6", "7", "8", "9">>

IsDigit(c) == \E k \in 1..Len(Digits) : Digits[k] = c

DigitVal(c) == (CHOOSE k \in 1..Len(Digits) : Digits[k] = c) - 1

Base == Len(Digits)

\* str(n) of a natural number: the f"step_{i}" and str(val) of an int.
RECURSIVE IntToStr(_)
IntToStr(n) ==
    IF n < Base THEN <<Digits[n + 1]>>
    ELSE IntToStr(n \div Base) \o <<Digits[(n % Base) + 1]>>

\* The position of the first occurrence of sub in s, 0 when there is none
\* (sub in s, s.find(sub)).
Find(sub, s) ==
    LET hits == {p \in 1..(Len(s) - Len(sub) + 1) :
                     SubSeq(s, p, p + Len(sub) - 1) = sub}
    IN  IF hits = {} THEN 0 ELSE CHOOSE p \in hits : \A q \in hits : p <= q

Contains(sub, s) == Find(sub, s) > 0

\* s.split(sub, 1) of a text that contains sub: the text before the first
\* occurrence and the text after it.
SplitOnce(s, sub) ==
    LET p == Find(sub, s)
    IN  <<SubSeq(s, 1, p - 1), SubSeq(s, p + Len(sub), Len(s))>>

\* str.strip(): the blank is the only whitespace of the alphabet.
RECURSIVE LStrip(_)
LStrip(s) == IF s # <<>> /\ Head(s) = " " THEN LStrip(Tail(s)) ELSE s

RECURSIVE RStrip(_)
RStrip(s) ==
    IF s # <<>> /\ s[Len(s)] = " " THEN RStrip(SubSeq(s, 1, Len(s) - 1)) ELSE s

Strip(s) == LStrip(RStrip(s))

\* str.lower() symbol by symbol: the words str() produces with a capital,
\* and the words of the model written in capitals.
LowerSym(c) ==
    CASE c = "True"  -> "true"
      [] c = "False" -> "false"
      [] c = "None"  -> "none"
      [] c = "FALSE" -> "false"
      [] c = "NULL"  -> "null"
      [] c = "On"    -> "on"
      [] OTHER       -> c

\* Lower leaving every symbol as it is.
Lower_Identity(s) == s

Lower(s) == [k \in 1..Len(s) |-> LowerSym(s[k])]

\* ----------------------------------------------------------------- values

PyStr(s)  == [t |-> "str", v |-> s]
PyInt(n)  == [t |-> "int", v |-> n]
PyBool(b) == [t |-> "bool", v |-> b]
PyNone    == [t |-> "none"]
PyDict(d) == [t |-> "dict", v |-> d]
PyList(l) == [t |-> "list", v |-> l]

\* The digits of n in exactly `places` places (zeros in front).
RECURSIVE FracDigits(_, _)
FracDigits(n, places) ==
    IF places = 0 THEN <<>>
    ELSE FracDigits(n \div Base, places - 1) \o <<Digits[(n % Base) + 1]>>

RECURSIVE Places(_)
Places(den) == IF den = 1 THEN 0 ELSE 1 + Places(den \div Base)

\* str(x) of a float num/den, den a power of ten: the shortest decimal, with
\* at least one place after the dot.
RECURSIVE FloatRepr(_)
FloatRepr(f) ==
    IF f[2] = 1 THEN IntToStr(f[1]) \o <<".", "0">>
    ELSE IF f[1] % Base = 0 THEN FloatRepr(<<f[1] \div Base, f[2] \div Base>>)
    ELSE IntToStr(f[1] \div f[2]) \o <<".">> \o FracDigits(f[1] % f[2], Places(f[2]))

\* str(val).  The repr of a dict or a list is one opaque word: nothing the
\* engine does looks inside it.
Stringify(val) ==
    CASE val.t = "str"  -> val.v
      [] val.t = "int"  -> IntToStr(val.v)
      [] val.t = "bool" -> IF val.v THEN <<"True">> ELSE <<"False">>
      [] val.t = "none" -> <<"None">>
      [] val.t = "float" -> FloatRepr(val.v)
      [] OTHER          -> <<"repr">>

\* The key of a dict a text names: dict keys are words, so a text of several
\* symbols (or none) names no key.
HasKey(d, text) == Len(text) = 1 /\ text[1] \in DOMAIN d

\* ------------------------------------------------------- _resolve_template

\* re.sub(r"\{([^}]+)\}", ...) at a "{" that starts s: the index of the "}"
\* that closes the match, 0 when there is no match at this position.  [^}]+
\* takes every symbol up to the first "}", and needs at least one.
MatchEnd(s) ==
    LET e == Find(<<"}">>, s)
    IN  IF s # <<>> /\ Head(s) = "{" /\ e >= 3 THEN e ELSE 0

\* replacer(m): ref is m.group(1), whole is m.group(0).
Replacer_NoDefault(ref, whole, context) ==
    IF Contains(<<".">>, ref)
    THEN LET parts == SplitOnce(ref, <<".">>)
         IN  IF parts[1] \in DOMAIN context /\ HasKey(context[parts[1]], parts[2])
             THEN Stringify(context[parts[1]][parts[2][1]])
             ELSE <<>>
    ELSE IF ref \in DOMAIN context
         THEN Stringify(PyDict(context[ref]))
         ELSE <<>>

Replacer(ref, whole, context) ==
    IF Contains(<<".">>, ref)
    THEN LET parts == SplitOnce(ref, <<".">>)
         IN  \* val = context.get(parts[0], {}): an absent entry is the empty
             \* dict, which exposes no field; every context value is a dict
             IF parts[1] \in DOMAIN context /\ HasKey(context[parts[1]], parts[2])
             THEN Stringify(context[parts[1]][parts[2][1]])
             ELSE whole
    ELSE IF ref \in DOMAIN context
         THEN Stringify(PyDict(context[ref]))
         ELSE whole

\* The leftmost, non-overlapping matches are replaced; replaced text is not
\* scanned again.
RECURSIVE ResolveTemplate(_, _)
ResolveTemplate(text, context) ==
    IF text = <<>> THEN <<>>
    ELSE LET e == MatchEnd(text)
         IN  IF e > 0
             THEN Replacer(SubSeq(text, 2, e - 1), SubSeq(text, 1, e), context)
                      \o ResolveTemplate(SubSeq(text, e + 1, Len(text)), context)
             ELSE <<Head(text)>> \o ResolveTemplate(Tail(text), context)

\* --------------------------------------------------------- _eval_condition

\* float(s) succeeds: blanks around, then digits with at most one dot and at
\* least one digit.  The alphabet has no sign, no exponent and none of the
\* words float() reads as a number (inf, nan), so this is all of float()
\* on the texts of the model.
IsFloat(s) ==
    LET b == Strip(s)
    IN  /\ b # <<>>
        /\ \A k \in 1..Len(b) : IsDigit(b[k]) \/ b[k] = "."
        /\ Cardinality({k \in 1..Len(b) : b[k] = "."}) <= 1
        /\ \E k \in 1..Len(b) : IsDigit(b[k])

RECURSIVE DigitsVal(_)
DigitsVal(ds) ==
    IF ds = <<>> THEN 0
    ELSE DigitsVal(SubSeq(ds, 1, Len(ds) - 1)) * Base + DigitVal(ds[Len(ds)])

RECURSIVE Pow(_, _)
Pow(b, n) == IF n = 0 THEN 1 ELSE b * Pow(b, n - 1)

\* float(s) of a text float() accepts, as the fraction <<num, den>>.
FloatOf(s) ==
    LET b == Strip(s)
        p == Find(<<".">>, b)
        whole == IF p = 0 THEN b ELSE SubSeq(b, 1, p - 1)
        frac  == IF p = 0 THEN <<>> ELSE SubSeq(b, p + 1, Len(b))
    IN  <<DigitsVal(whole \o frac), Pow(Base, Len(frac))>>

FloatLess(a, b) == a[1] * b[2] < b[1] * a[2]
FloatEq(a, b)   == a[1] * b[2] = b[1] * a[2]

\* The operator table, in the order the loop tries it.
Operators == << <<">", "=">>, <<"<", "=">>, <<"!", "=">>, <<"=", "=">>,
               <<">">>, <<"<">> >>

\* op_fn(a, b) on two floats.  str(a) == str(b) of two floats without sign
\* or nan is a == b.
OpFn(op, a, b) ==
    CASE op = <<">", "=">> -> ~FloatLess(a, b)
      [] op = <<"<", "=">> -> ~FloatLess(b, a)
      [] op = <<"!", "=">> -> ~FloatEq(a, b)
      [] op = <<"=", "=">> -> FloatEq(a, b)
      [] op = <<">">>      -> FloatLess(b, a)
      [] op = <<"<">>      -> FloatLess(a, b)

\* The first operator of the table that occurs in the text; 0 when none does.
FoundOp(resolved) ==
    LET hits == {k \in 1..Len(Operators) : Contains(Operators[k], resolved)}
    IN  IF hits = {} THEN 0 ELSE CHOOSE k \in hits : \A j \in hits : k <= j

Falsy == { <<"false">>, <<"0">>, <<"none">>, <<>>, <<"null">> }

EvalCondition(condition, context) ==
    LET resolved == ResolveTemplate(condition, context)
        k == FoundOp(resolved)
    IN  IF k > 0
        THEN LET lr == SplitOnce(resolved, Operators[k])
             IN  IF IsFloat(lr[1]) /\ IsFloat(lr[2])
                 THEN OpFn(Operators[k], FloatOf(lr[1]), FloatOf(lr[2]))
                 \* except ValueError
                 ELSE Strip(lr[1]) = Strip(lr[2])
        ELSE Lower(Strip(resolved)) \notin Falsy

\* -------------------------------------------------------- _apply_templates

\* The isinstance tests on a value: str, dict, list, anything else.
RECURSIVE ApplyTemplates(_, _)
ApplyTemplates(obj, context) ==
    CASE obj.t = "str"  -> PyStr(ResolveTemplate(obj.v, context))
      [] obj.t = "dict" ->
            PyDict([k \in DOMAIN obj.v |-> ApplyTemplates(obj.v[k], context)])
      [] obj.t = "list" ->
            PyList([k \in 1..Len(obj.v) |-> ApplyTemplates(obj.v[k], context)])
      [] OTHER          -> obj

\* ------------------------------------------------------ the configuration

\* d.get(k): None when the key is absent.
Get(d, k) == IF k \in DOMAIN d THEN d[k] ELSE PyNone

\* bool(val), as `or`, `not` and `if` read a value.
Truthy(val) ==
    CASE val.t = "str"   -> val.v # <<>>
      [] val.t = "int"   -> val.v # 0
      [] val.t = "float" -> val.v[1] # 0
      [] val.t = "bool"  -> val.v
      [] val.t = "none"  -> FALSE
      [] val.t = "list"  -> val.v # <<>>
      [] val.t = "dict"  -> DOMAIN val.v # {}

EmptyDict == [k \in {} |-> PyNone]

\* The document of pin_config.json is a record: devices (name -> device
\* record) and, once a routine was saved, routines.  Python dicts keep their
\* keys in insertion order; routines is therefore a sequence of
\* [name, description, steps] with pairwise different names.
Lamp == <<"lamp">>

Devices == [n \in {Lamp} |-> [pin |-> PyInt(17), type |-> PyStr(<<"output">>)]]

NoDevices == [n \in {} |-> EmptyDict]

\* load_config(): the document of the file, {"devices": {}} without a file.
\* json.load returns the document json.dump wrote: the documents of the
\* model hold strings, ints, lists and dicts with string keys only.
LoadConfig(f) == IF f.exists THEN f.doc ELSE [devices |-> NoDevices]

\* _save_config(config)
SaveConfig(doc) == [exists |-> TRUE, doc |-> doc]

\* config.get("routines", {})
RoutinesOf(doc) == IF "routines" \in DOMAIN doc THEN doc.routines ELSE <<>>

\* list(routines.keys())
RoutineNames(routines) == [k \in 1..Len(routines) |-> PyStr(routines[k].name)]

\* The position of name among the routines, 0 when it is not a key.
RoutineIndex(routines, name) ==
    IF \E k \in 1..Len(routines) : routines[k].name = name
    THEN CHOOSE k \in 1..Len(routines) : routines[k].name = name
    ELSE 0

\* ---------------------------------------------------------------- dispatch

\* float(x) raises: of a str, when the text is no number; of a dict or a
\* list, always (TypeError).  float(None) is never evaluated: dispatch
\* returns before.
FloatRaises(val) ==
    CASE val.t = "str"  -> ~IsFloat(val.v)
      [] val.t = "dict" -> TRUE
      [] val.t = "list" -> TRUE
      [] OTHER          -> FALSE

FloatValue(val) ==
    CASE val.t = "str" -> FloatOf(val.v)
      [] val.t = "int" -> <<val.v, 1>>
      [] val.t = "float" -> val.v
      [] val.t = "bool" -> <<IF val.v THEN 1 ELSE 0, 1>>

\* int(identifier) succeeds: blanks around a run of digits.
IsInt(text) ==
    LET b == Strip(text)
    IN  b # <<>> /\ \A k \in 1..Len(b) : IsDigit(b[k])

\* _resolve(identifier, config): [ok, pin, description], by registered name
\* first, then as a pin number; a pin no device has is a default output
\* device.  No device record of the model has a description.
ResolveDevice(identifier, doc) ==
    LET text == Stringify(identifier)
        devices == IF "devices" \in DOMAIN doc THEN doc.devices ELSE NoDevices
        pin == PyInt(DigitsVal(Strip(text)))
    IN  IF text \in DOMAIN devices
        THEN [ok |-> TRUE, pin |-> devices[text].pin, description |-> <<>>]
        ELSE IF identifier.t = "int" \/ (identifier.t = "str" /\ IsInt(text))
             THEN [ok |-> TRUE, pin |-> pin,
                   description |->
                       IF \E n \in DOMAIN devices : devices[n].pin = pin
                       THEN <<>>
                       ELSE <<"Pin", " ">> \o Strip(text) \o <<" ", "(not", " ", "registered)">>]
             ELSE [ok |-> FALSE]

Failure(msg) == [success |-> PyBool(FALSE), error |-> PyStr(msg)]

\* result.update({"device": str(identifier), "description": ...})
WithDevice(result, identifier, description) ==
    [k \in DOMAIN result \cup {"device", "description"} |->
        CASE k = "device"      -> PyStr(Stringify(identifier))
          [] k = "description" -> PyStr(description)
          [] OTHER             -> result[k]]

\* What the hardware may answer to _read_pin(pin): a level, an unreadable
\* level (None), or a failure of the tool.
ReadPinResults(pin) ==
    { [success |-> PyBool(TRUE), pin |-> pin, value |-> v,
       backend |-> PyStr(<<"pinctrl">>)] : v \in {PyBool(TRUE), PyBool(FALSE), PyNone} }
    \cup { Failure(<<"stderr">>) }

\* read(identifier)
ReadResults(identifier, doc) ==
    LET dev == ResolveDevice(identifier, doc)
    IN  IF ~dev.ok THEN { Failure(<<"not_a_registered_name">>) }
        ELSE { WithDevice(r, identifier, dev.description) :
                   r \in ReadPinResults(dev.pin) }

PyFloat(f) == [t |-> "float", v |-> f]

\* _write_pwm(pin, duty_cycle, frequency)
WritePwmResults(pin, duty, frequency) ==
    IF FloatLess(duty, <<0, 1>>) \/ FloatLess(<<1, 1>>, duty)
    THEN { Failure(<<"duty_cycle_must_be_0_to_1">>) }
    ELSE { [success |-> PyBool(TRUE), pin |-> pin, duty_cycle |-> PyFloat(duty),
            frequency |-> PyFloat(frequency), backend |-> PyStr(<<"gpiozero">>)],
           Failure(<<"stderr">>) }

\* set_level(identifier, level)
SetLevelResults(identifier, level, doc) ==
    LET dev == ResolveDevice(identifier, doc)
    IN  IF ~dev.ok THEN { Failure(<<"not_a_registered_name">>) }
        ELSE { WithDevice(r, identifier, dev.description) :
                   r \in WritePwmResults(dev.pin, level, <<100, 1>>) }

\* run_routine(name) when the routine is missing.
RoutineNotFound_NoNames(name, routines) ==
    [success |-> PyBool(FALSE),
     error |-> PyStr(<<"Routine", " ", "'">> \o name \o <<"'", " ", "not", " ", "found.">>),
     available_routines |-> PyList(<<>>)]

RoutineNotFound(name, routines) ==
    [success |-> PyBool(FALSE),
     error |-> PyStr(<<"Routine", " ", "'">> \o name \o <<"'", " ", "not", " ", "found.">>),
     available_routines |-> PyList(RoutineNames(routines))]

Cmd(word) == PyStr(<<word>>)

\* dispatch(payload) up to the run it may start: what it returns itself
\* (one of `results`, the hardware chooses), the exception it raises, or the
\* step list it hands to sequence (with the routine's name when run_routine
\* does).  The command words of the model are read, set, sequence,
\* run_routine and words dispatch does not know.
Dispatch(payload, doc) ==
    LET cmd == IF "command" \in DOMAIN payload THEN payload.command ELSE PyStr(<<>>)
        identifier == IF Truthy(Get(payload, "device"))
                      THEN Get(payload, "device") ELSE Get(payload, "pin")
    IN  CASE cmd = Cmd("read") ->
                IF identifier = PyNone
                THEN [kind |-> "return", results |-> { Failure(<<"read_requires">>) }]
                ELSE [kind |-> "return", results |-> ReadResults(identifier, doc)]
          [] cmd = Cmd("set") ->
                IF identifier = PyNone \/ Get(payload, "level") = PyNone
                THEN [kind |-> "return", results |-> { Failure(<<"set_requires">>) }]
                ELSE IF FloatRaises(payload.level)
                THEN [kind |-> "raise"]
                ELSE [kind |-> "return",
                      results |-> SetLevelResults(identifier,
                                                  FloatValue(payload.level), doc)]
          [] cmd = Cmd("sequence") ->
                IF Get(payload, "steps").t # "list" \/ Get(payload, "steps").v = <<>>
                THEN [kind |-> "return", results |-> { Failure(<<"sequence_requires">>) }]
                ELSE [kind |-> "call", steps |-> payload.steps.v, routine |-> PyNone]
          [] cmd = Cmd("run_routine") ->
                IF ~Truthy(Get(payload, "name"))
                THEN [kind |-> "return", results |-> { Failure(<<"run_routine_requires">>) }]
                ELSE LET routines == RoutinesOf(doc)
                         at == RoutineIndex(routines, payload.name.v)
                     IN  IF at = 0
                         THEN [kind |-> "return",
                               results |-> { RoutineNotFound(payload.name.v, routines) }]
                         ELSE [kind |-> "call", steps |-> routines[at].steps,
                               routine |-> payload.name]
          [] OTHER ->
                [kind |-> "return", results |-> { Failure(<<"Unknown_command">>) }]

\* ------------------------------------------------- the two pure functions

\* Results as dispatch returns them (a successful and a failed read).
ResultRead == [success |-> PyBool(TRUE), pin |-> PyInt(17),
               value |-> PyBool(FALSE), backend |-> PyStr(<<"pinctrl">>)]

ResultFail == [success |-> PyBool(FALSE), error |-> PyStr(<<"stderr">>)]

NoContext == [n \in {} |-> ResultRead]

EvalContexts ==
    { NoContext,
      [n \in {<<"x">>} |-> ResultRead],
      [n \in {<<"x">>, <<"step_", "0">>} |->
          IF n = <<"x">> THEN ResultFail ELSE ResultRead] }

Dotted(name, field) == <<"{">> \o name \o <<".">> \o field \o <<"}">>

Bare(name) == <<"{">> \o name \o <<"}">>

RefNames == { <<"x">>, <<"z">>, <<"step_", "0">> }

RefFields == { <<"pin">>, <<"value">>, <<"error">>, <<"pin", ".", "x">> }

Placeholders ==
    {Dotted(n, f) : n \in RefNames, f \in RefFields} \cup {Bare(n) : n \in RefNames}

PlainTexts == { <<>>, <<"on">>, <<" ">>, <<"1", "7">>, <<"}">>, <<"on", ".", "x">> }

Operands ==
    { <<>>, <<"on">>, <<"off">>, <<"7">>, <<"1", "7">>, <<"1", "7", ".", "0">>,
      <<"True">>, Dotted(<<"x">>, <<"pin">>), Dotted(<<"x">>, <<"value">>),
      Dotted(<<"z">>, <<"pin">>) }

Blanks(n) == [k \in 1..n |-> " "]

OperatorSet == {Operators[k] : k \in 1..Len(Operators)}

\* A comparison: left operand, blanks, operator, blanks, right operand.
CondInputs ==
    [kind : {"cond"}, left : Operands, op : OperatorSet, right : Operands,
     padl : 0..MaxPad, padr : 0..MaxPad, context : EvalContexts]

\* A text with up to two placeholders between plain texts.
TemplateInputs ==
    [kind : {"template"}, pre : PlainTexts, ph1 : Placeholders \cup {<<>>},
     mid : PlainTexts, ph2 : Placeholders \cup {<<>>}, context : EvalContexts]

\* A read whose level the tool could not tell: value is None.
ResultNull == [success |-> PyBool(TRUE), pin |-> PyInt(17),
               value |-> PyNone, backend |-> PyStr(<<"pinctrl">>)]

ProbeContexts == EvalContexts \cup { [n \in {<<"x">>} |-> ResultNull] }

\* Texts without an operator token.
ProbeTexts ==
    { <<>>, <<"true">>, <<"True">>, <<"false">>, <<"False">>, <<"FALSE">>,
      <<"0">>, <<"0", "0">>, <<"0", ".", "0">>, <<"1">>, <<"none">>, <<"None">>,
      <<"null">>, <<"NULL">>, <<"on">>, <<"On">>, <<"=">>, <<"!">>,
      <<"false", " ", "0">>, <<"{", "}">>,
      Dotted(<<"x">>, <<"value">>), Dotted(<<"x">>, <<"success">>),
      Dotted(<<"x">>, <<"pin">>), Dotted(<<"z">>, <<"value">>), Bare(<<"x">>) }

\* A truthiness probe: blanks, a text without operator, blanks.
ProbeInputs ==
    [kind : {"probe"}, text : ProbeTexts, padl : 0..MaxPad, padr : 0..MaxPad,
     context : ProbeContexts]

InputText(in) ==
    CASE in.kind = "cond" ->
            in.left \o Blanks(in.padl) \o in.op \o Blanks(in.padr) \o in.right
      [] in.kind = "probe" ->
            Blanks(in.padl) \o in.text \o Blanks(in.padr)
      [] OTHER ->
            in.pre \o in.ph1 \o in.mid \o in.ph2

EvalInit ==
    /\ ein \in CondInputs \cup TemplateInputs \cup ProbeInputs
    /\ eout = [state |-> "none"]
    /\ gpio = AllLow
    /\ file = [exists |-> FALSE]
    /\ stack = <<>>
    /\ ret = [op |-> "none", state |-> "none"]

\* _resolve_template(text, context)
CallResolveTemplate ==
    /\ eout.state = "none"
    /\ ein.kind = "template"
    /\ eout' = [state |-> "resolved",
                value |-> ResolveTemplate(InputText(ein), ein.context)]
    /\ UNCHANGED <<file, stack, ret, ein, gpio>>

\* _eval_condition(condition, context)
CallEvalCondition ==
    /\ eout.state = "none"
    /\ ein.kind \in {"cond", "probe"}
    /\ eout' = [state |-> "evaluated",
                value |-> EvalCondition(InputText(ein), ein.context)]
    /\ UNCHANGED <<file, stack, ret, ein, gpio>>

EvalNext == CallResolveTemplate \/ CallEvalCondition

SpecEval == EvalInit /\ [][EvalNext]_vars

\* ---------------------------------------------------------------- sequence

\* f"step_{i}"
DefaultName(i) == <<"step_">> \o IntToStr(i)

\* raw_step.get("as", f"step_{i}"); the `as` values of the model are strs.
StepName(raw, i) == IF "as" \in DOMAIN raw THEN raw.as.v ELSE DefaultName(i)

\* dict(x) raises: of a non-empty str (ValueError), of a number (TypeError).
\* The model hands dict() no list.
DictRaises(val) ==
    CASE val.t = "dict" -> FALSE
      [] val.t = "str"  -> val.v # <<>>
      [] OTHER          -> TRUE

DictOf(val) == IF val.t = "dict" THEN val.v ELSE EmptyDict

\* The log entry of an if/then/else block.
ConditionEntry(i, condition, met, branch) ==
    [k \in {"_step", "_type", "condition", "condition_met", "branch_taken"} |->
        CASE k = "_step"         -> PyInt(i)
          [] k = "_type"         -> PyStr(<<"condition">>)
          [] k = "condition"     -> condition
          [] k = "condition_met" -> PyBool(met)
          [] k = "branch_taken"  ->
                PyStr(<<IF ~Truthy(branch) THEN "none"
                        ELSE IF met THEN "then" ELSE "else">>)]

\* {**result, "_step": i, "_name": step_name}
LogEntry(result, i, name) ==
    [k \in DOMAIN result \cup {"_step", "_name"} |->
        CASE k = "_step" -> PyInt(i)
          [] k = "_name" -> PyStr(name)
          [] OTHER       -> result[k]]

\* Select taking the then branch whatever the condition gives.
Select_AlwaysThen(item, i, context) ==
    IF DictRaises(item) THEN [kind |-> "raise", log |-> <<>>]
    ELSE IF "if" \in DOMAIN DictOf(item)
    THEN LET raw0   == DictOf(item)
             met    == EvalCondition(Stringify(raw0["if"]), context)
             branch == Get(raw0, "then")
             log    == <<ConditionEntry(i, raw0["if"], met, branch)>>
         IN  IF branch = PyNone THEN [kind |-> "skip", log |-> log]
             ELSE IF DictRaises(branch) THEN [kind |-> "raise", log |-> log]
             ELSE [kind |-> "run", log |-> log, raw |-> DictOf(branch)]
    ELSE [kind |-> "run", log |-> <<>>, raw |-> DictOf(item)]

\* The head of the loop body for the step list item at index i: the
\* condition's log entry, and the raw step to run ("run"), no step ("skip":
\* the branch is None) or the exception of dict() ("raise").
Select(item, i, context) ==
    IF DictRaises(item) THEN [kind |-> "raise", log |-> <<>>]
    ELSE IF "if" \in DOMAIN DictOf(item)
    THEN LET raw0   == DictOf(item)
             met    == EvalCondition(Stringify(raw0["if"]), context)
             branch == Get(raw0, IF met THEN "then" ELSE "else")
             log    == <<ConditionEntry(i, raw0["if"], met, branch)>>
         IN  IF branch = PyNone THEN [kind |-> "skip", log |-> log]
             ELSE IF DictRaises(branch) THEN [kind |-> "raise", log |-> log]
             ELSE [kind |-> "run", log |-> log, raw |-> DictOf(branch)]
    ELSE [kind |-> "run", log |-> <<>>, raw |-> DictOf(item)]

\* not result.get("success") and raw_step.get("on_error") != "continue"
ShouldAbort_IgnoresOnError(raw, result) == ~Truthy(Get(result, "success"))

ShouldAbort_Never(raw, result) == FALSE

ShouldAbort(raw, result) ==
    /\ ~Truthy(Get(result, "success"))
    /\ Get(raw, "on_error") # PyStr(<<"continue">>)

\* f"Step {i} ('{step_name}') failed: {result.get('error')}"
AbortMessage(i, name, result) ==
    <<"Step", " ">> \o IntToStr(i) \o <<" ", "('">> \o name
        \o <<"')", " ", "failed:", " ">> \o Stringify(Get(result, "error"))

\* A frame that starts with the context of its caller.
NewFrame_Inherit(steps, routine) ==
    [steps |-> steps, i |-> 0,
     context |-> IF stack = <<>> THEN NoContext ELSE stack[Len(stack)].context,
     results |-> <<>>, status |-> "loop", pend |-> PyNone, out |-> EmptyDict,
     routine |-> routine, calls |-> <<>>, returns |-> <<>>]

\* The frame of a call of sequence(steps): the loop index, the context, the
\* log, whether the loop runs, waits for the dispatch of the step at i
\* (pend: that step and its name) or has returned early (out), and, when
\* run_routine made the call, the routine's name.  calls records every
\* dispatch(step) of the frame (the index, the raw step, its name, the
\* payload), returns every result dispatch returned to the frame.
NewFrame(steps, routine) ==
    [steps |-> steps, i |-> 0, context |-> NoContext, results |-> <<>>,
     status |-> "loop", pend |-> PyNone, out |-> EmptyDict,
     routine |-> routine, calls |-> <<>>, returns |-> <<>>]

CallRecord(i, raw, name, payload) ==
    [index |-> i, raw |-> raw, name |-> name, payload |-> payload]

ReturnRecord(i, raw, name, result) ==
    [index |-> i, raw |-> raw, name |-> name, result |-> result]

\* The frame once dispatch(step) was called for the step at f.i.
Dispatched(f, sel, payload) ==
    [f EXCEPT !.results = f.results \o sel.log,
              !.calls = Append(f.calls,
                               CallRecord(f.i, sel.raw, StepName(sel.raw, f.i), payload))]

\* context[step_name] = result
Store(context, name, result) ==
    [n \in DOMAIN context \cup {name} |-> IF n = name THEN result ELSE context[n]]

\* The rest of the loop body once dispatch returned result: the context, the
\* log, and the early return or the next index.
Advance_AbortBeforeLog(f, raw, name, result) ==
    IF ShouldAbort(raw, result)
    THEN [f EXCEPT !.context = Store(f.context, name, result),
                   !.returns = Append(f.returns, ReturnRecord(f.i, raw, name, result)),
                   !.status = "aborted", !.pend = PyNone,
                   !.out = [success |-> PyBool(FALSE),
                            stopped_at_step |-> PyInt(f.i),
                            error |-> PyStr(AbortMessage(f.i, name, result)),
                            results |-> PyList(f.results)]]
    ELSE [f EXCEPT !.context = Store(f.context, name, result),
                   !.returns = Append(f.returns, ReturnRecord(f.i, raw, name, result)),
                   !.results = Append(f.results, LogEntry(result, f.i, name)),
                   !.status = "loop", !.pend = PyNone, !.i = f.i + 1]

Advance(f, raw, name, result) ==
    LET results == Append(f.results, LogEntry(result, f.i, name))
    IN  IF ShouldAbort(raw, result)
        THEN [f EXCEPT !.context = Store(f.context, name, result),
                       !.returns = Append(f.returns, ReturnRecord(f.i, raw, name, result)),
                       !.results = results,
                       !.status = "aborted", !.pend = PyNone,
                       !.out = [success |-> PyBool(FALSE),
                                stopped_at_step |-> PyInt(f.i),
                                error |-> PyStr(AbortMessage(f.i, name, result)),
                                results |-> PyList(results)]]
        ELSE [f EXCEPT !.context = Store(f.context, name, result),
                       !.returns = Append(f.returns, ReturnRecord(f.i, raw, name, result)),
                       !.results = results,
                       !.status = "loop", !.pend = PyNone, !.i = f.i + 1]

\* return {"success": True, "steps_run": len(results), "results": results}
Exhausted(f) ==
    [success |-> PyBool(TRUE), steps_run |-> PyInt(Len(f.results)),
     results |-> PyList(f.results)]

\* result["routine"] = name, in run_routine
WithRoutine(result, routine) ==
    IF routine = PyNone THEN result
    ELSE [k \in DOMAIN result \cup {"routine"} |->
             IF k = "routine" THEN routine ELSE result[k]]

\* What the finished call of a frame returns to its caller.
ReturnValue(f) ==
    WithRoutine(IF f.status = "aborted" THEN f.out ELSE Exhausted(f), f.routine)

Top == stack[Len(stack)]

Looping == stack # <<>> /\ Top.status = "loop" /\ Top.i < Len(Top.steps)

Finished(f) == f.status = "aborted" \/ (f.status = "loop" /\ f.i = Len(f.steps))

\* _apply_templates against an empty context.
Payload_NoContext(raw, context) == ApplyTemplates(PyDict(raw), NoContext).v

\* step = _apply_templates(raw_step, context)
Payload(raw, context) == ApplyTemplates(PyDict(raw), context).v

SetTop(f) == [stack EXCEPT ![Len(stack)] = f]

\* An if block whose branch is None: the entry is logged, the loop goes on.
SeqSkip ==
    /\ Looping
    /\ \E sel \in {Select(Top.steps[Top.i + 1], Top.i, Top.context)} :
          /\ sel.kind = "skip"
          /\ stack' = SetTop([Top EXCEPT !.results = Top.results \o sel.log,
                                         !.i = Top.i + 1])
    /\ UNCHANGED <<file, ret, ein, eout, gpio>>

\* One iteration whose dispatch(step) returns without running a step list.
SeqStep ==
    /\ Looping
    /\ \E sel \in {Select(Top.steps[Top.i + 1], Top.i, Top.context)} :
          /\ sel.kind = "run"
          /\ \E payload \in {Payload(sel.raw, Top.context)} :
             \E disp \in {Dispatch(payload, LoadConfig(file))} :
                /\ disp.kind = "return"
                /\ \E result \in disp.results :
                   \E f \in {Dispatched(Top, sel, payload)} :
                      stack' = SetTop(Advance(f, sel.raw, StepName(sel.raw, f.i),
                                              result))
    /\ UNCHANGED <<file, ret, ein, eout, gpio>>

\* One iteration whose step is a sequence or run_routine command: dispatch
\* calls sequence, and the iteration waits for it to return.
SeqCall ==
    /\ Looping
    /\ Len(stack) < MaxDepth
    /\ \E sel \in {Select(Top.steps[Top.i + 1], Top.i, Top.context)} :
          /\ sel.kind = "run"
          /\ \E payload \in {Payload(sel.raw, Top.context)} :
             \E disp \in {Dispatch(payload, LoadConfig(file))} :
                /\ disp.kind = "call"
                /\ \E f \in {Dispatched(Top, sel, payload)} :
                      stack' = Append(SetTop([f EXCEPT
                                         !.status = "wait",
                                         !.pend = [raw |-> sel.raw,
                                                   name |-> StepName(sel.raw, f.i)]]),
                                      NewFrame(disp.steps, disp.routine))
    /\ UNCHANGED <<file, ret, ein, eout, gpio>>

\* An exception nothing catches: of dict(raw_step) or dict(branch), of
\* dispatch (float of a text that is no number), or RecursionError when the
\* calls nest deeper than the interpreter allows.  It ends every call on the
\* stack; the caller of the outermost one gets no result.
SeqRaise ==
    /\ Looping
    /\ \E sel \in {Select(Top.steps[Top.i + 1], Top.i, Top.context)} :
          \/ sel.kind = "raise"
          \/ /\ sel.kind = "run"
             /\ \E disp \in {Dispatch(Payload(sel.raw, Top.context), LoadConfig(file))} :
                   \/ disp.kind = "raise"
                   \/ disp.kind = "call" /\ Len(stack) >= MaxDepth
    /\ stack' = <<>>
    /\ ret' = [ret EXCEPT !.state = "raised"]
    /\ UNCHANGED <<file, ein, eout, gpio>>

\* A nested call of sequence returns: the waiting iteration of the caller
\* goes on with its result.
SeqReturnNested ==
    /\ Len(stack) > 1
    /\ Finished(Top)
    /\ LET caller == stack[Len(stack) - 1]
       IN  stack' = Append(SubSeq(stack, 1, Len(stack) - 2),
                           Advance(caller, caller.pend.raw, caller.pend.name,
                                   ReturnValue(Top)))
    /\ UNCHANGED <<file, ret, ein, eout, gpio>>

\* The outermost call returns.
SeqReturn ==
    /\ Len(stack) = 1
    /\ Finished(Top)
    /\ stack' = <<>>
    /\ ret' = [op |-> ret.op, state |-> "returned", arg |-> ret.arg,
               before |-> ret.before, result |-> ReturnValue(Top),
               calls |-> Top.calls, returns |-> Top.returns]
    /\ UNCHANGED <<file, ein, eout, gpio>>

\* ------------------------------------------------------- the routine store

\* config.setdefault("routines", {})[name] = {...}: an existing key keeps its
\* place, a new key goes last.
SaveRoutine_Append(doc, name, steps, description) ==
    [k \in DOMAIN doc \cup {"routines"} |->
        IF k = "routines"
        THEN Append(RoutinesOf(doc),
                    [name |-> name, description |-> description, steps |-> steps])
        ELSE doc[k]]

\* save_routine writing a document that holds the saved routine only.
SaveRoutine_Only(doc, name, steps, description) ==
    [routines |-> <<[name |-> name, description |-> description, steps |-> steps]>>]

SaveRoutine(doc, name, steps, description) ==
    LET routines == RoutinesOf(doc)
        at       == RoutineIndex(routines, name)
        entry    == [name |-> name, description |-> description, steps |-> steps]
    IN  [k \in DOMAIN doc \cup {"routines"} |->
            IF k = "routines"
            THEN IF at = 0 THEN Append(routines, entry)
                 ELSE [routines EXCEPT ![at] = entry]
            ELSE doc[k]]

\* del config["routines"][name], for a name that is a key
DeleteRoutine_Keep(doc, name) == doc

DeleteRoutine(doc, name) ==
    LET routines == RoutinesOf(doc)
        at       == RoutineIndex(routines, name)
    IN  [doc EXCEPT !.routines =
            SubSeq(routines, 1, at - 1) \o SubSeq(routines, at + 1, Len(routines))]

\* The rows list_routines returns.
RoutineRows(routines) ==
    [k \in 1..Len(routines) |->
        [name |-> PyStr(routines[k].name), steps |-> PyInt(Len(routines[k].steps)),
         description |-> PyStr(routines[k].description)]]

Returned(op, arg, result) ==
    [op |-> op, state |-> "returned", arg |-> arg, before |-> file,
     result |-> result, calls |-> <<>>, returns |-> <<>>]

Running(op, arg) == [op |-> op, state |-> "running", arg |-> arg, before |-> file]

Idle == stack = <<>>

\* save_routine(name, steps, description)
CallSaveRoutine(name, steps, description) ==
    /\ Idle
    /\ file' = SaveConfig(SaveRoutine(LoadConfig(file), name, steps, description))
    /\ ret' = Returned("save_routine",
                       [name |-> name, steps |-> steps, description |-> description],
                       [success |-> PyBool(TRUE), saved_routine |-> PyStr(name),
                        steps |-> PyInt(Len(steps))])
    /\ UNCHANGED <<stack, ein, eout, gpio>>

\* run_routine(name)
CallRunRoutine(name) ==
    /\ Idle
    /\ LET routines == RoutinesOf(LoadConfig(file))
           at       == RoutineIndex(routines, name)
       IN  IF at = 0
           THEN /\ ret' = Returned("run_routine", name,
                                   RoutineNotFound(name, routines))
                /\ stack' = stack
           ELSE /\ ret' = Running("run_routine", name)
                /\ stack' = <<NewFrame(routines[at].steps, PyStr(name))>>
    /\ UNCHANGED <<file, ein, eout, gpio>>

\* delete_routine(name)
CallDeleteRoutine(name) ==
    /\ Idle
    /\ IF RoutineIndex(RoutinesOf(LoadConfig(file)), name) = 0
       THEN /\ file' = file
            /\ ret' = Returned("delete_routine", name,
                               Failure(<<"Routine", " ", "'">> \o name
                                           \o <<"'", " ", "not", " ", "found.">>))
       ELSE /\ file' = SaveConfig(DeleteRoutine(LoadConfig(file), name))
            /\ ret' = Returned("delete_routine", name,
                               [success |-> PyBool(TRUE),
                                deleted_routine |-> PyStr(name)])
    /\ UNCHANGED <<stack, ein, eout, gpio>>

\* list_routines()
CallListRoutines ==
    /\ Idle
    /\ ret' = Returned("list_routines", PyNone,
                       [success |-> PyBool(TRUE),
                        routines |-> PyList(RoutineRows(RoutinesOf(LoadConfig(file))))])
    /\ UNCHANGED <<file, stack, ein, eout, gpio>>

\* sequence(steps)
CallSequence(steps) ==
    /\ Idle
    /\ ret' = Running("sequence", steps)
    /\ stack' = <<NewFrame(steps, PyNone)>>
    /\ UNCHANGED <<file, ein, eout, gpio>>

\* ------------------------------------------------------------- step lists

Pin17 == PyStr(<<"1", "7">>)

Continue == PyStr(<<"continue">>)

StepRead == PyDict([command |-> Cmd("read"), device |-> Pin17])

StepReadA == PyDict([command |-> Cmd("read"), device |-> Pin17, as |-> PyStr(<<"a">>)])

StepReadAContinue ==
    PyDict([command |-> Cmd("read"), device |-> Pin17, as |-> PyStr(<<"a">>),
            on_error |-> Continue])

\* An explicit name of the form of a default name.
StepReadStep1 ==
    PyDict([command |-> Cmd("read"), device |-> PyStr(Lamp),
            as |-> PyStr(DefaultName(1)), on_error |-> Continue])

\* The level is the pin of step a: 17, out of range, when a succeeded; no
\* number when the placeholder stays.
StepSet ==
    PyDict([command |-> Cmd("set"), device |-> Pin17,
            level |-> PyStr(Dotted(<<"a">>, <<"pin">>))])

StepSetContinue ==
    PyDict([command |-> Cmd("set"), device |-> Pin17,
            level |-> PyStr(Dotted(<<"a">>, <<"pin">>)), on_error |-> Continue])

\* A read of the pin that step a read.
StepReadRef == PyDict([command |-> Cmd("read"), device |-> PyStr(Dotted(<<"a">>, <<"pin">>))])

StepSetHalf ==
    PyDict([command |-> Cmd("set"), device |-> Pin17, level |-> PyStr(<<"0", ".", "5">>),
            on_error |-> PyStr(<<"ignore">>)])

StepIf ==
    PyDict([if |-> PyStr(Dotted(<<"a">>, <<"value">>) \o <<" ", "=", "=", " ", "True">>),
            then |-> StepReadAContinue, else |-> StepRead])

StepIfThen ==
    PyDict([if |-> PyStr(Dotted(<<"a">>, <<"pin">>) \o <<" ", ">", " ", "5">>),
            then |-> StepReadA])

\* A then that is no mapping, an else that is the empty mapping.
StepIfOdd ==
    PyDict([if |-> PyStr(Dotted(<<"a">>, <<"value">>)),
            then |-> PyStr(<<"on">>), else |-> PyDict(EmptyDict)])

StepNested ==
    PyDict([command |-> Cmd("sequence"), steps |-> PyList(<<StepRead, StepSet>>),
            on_error |-> Continue])

StepRunM == PyDict([command |-> Cmd("run_routine"), name |-> PyStr(<<"m">>)])

StepRunF ==
    PyDict([command |-> Cmd("run_routine"), name |-> PyStr(<<"f">>), on_error |-> Continue])

StepRunLoop == PyDict([command |-> Cmd("run_routine"), name |-> PyStr(<<"loop">>)])

StepUniverse ==
    { StepRead, StepReadA, StepReadAContinue, StepReadStep1, StepSet, StepSetHalf,
      StepIf, StepIfThen, StepIfOdd, StepNested, StepRunM }

StepLists == UNION { [1..n -> StepUniverse] : n \in 0..MaxSteps }

\* The routines of the controller's configuration: m and c, three steps
\* whose second fails when the first succeeded, and loop, whose one step
\* runs loop.
RoutineM == [name |-> <<"m">>, description |-> <<"morning">>,
             steps |-> <<StepReadA, StepSet, StepRead>>]

RoutineC == [name |-> <<"c">>, description |-> <<>>,
             steps |-> <<StepReadA, StepSetContinue, StepRead>>]

\* Two reads under the name a, then a step that refers to a.
RoutineD == [name |-> <<"d">>, description |-> <<>>,
             steps |-> <<StepReadA, StepReadAContinue, StepReadRef>>]

\* f refers to a before it reads a; e runs f twice.
RoutineF == [name |-> <<"f">>, description |-> <<>>, steps |-> <<StepIfThen, StepReadA>>]

RoutineE == [name |-> <<"e">>, description |-> <<>>, steps |-> <<StepRunF, StepRunF>>]

RoutineLoop == [name |-> <<"loop">>, description |-> <<>>, steps |-> <<StepRunLoop>>]

RoutineNameSet == { <<"m">>, <<"c">>, <<"d">>, <<"e">>, <<"f">>, <<"loop">>, <<"zz">> }

\* ------------------------------------------------ the sequence controller

Init ==
    /\ file = SaveConfig([devices |-> Devices, routines |-> <<RoutineM, RoutineC, RoutineD, RoutineE, RoutineF,
                                      RoutineLoop>>])
    /\ stack = <<>>
    /\ ret = [op |-> "none", state |-> "none"]
    /\ ein = [kind |-> "none"]
    /\ eout = [state |-> "none"]
    /\ gpio = AllLow

\* main() handles one command and the process ends: a behaviour of the
\* controller is one call and the calls nested in it.
Fresh == ret.state = "none"

Next ==
    \/ \E steps \in StepLists : Fresh /\ CallSequence(steps)
    \/ \E name \in RoutineNameSet : Fresh /\ CallRunRoutine(name)
    \/ SeqSkip
    \/ SeqStep
    \/ SeqCall
    \/ SeqRaise
    \/ SeqReturnNested
    \/ SeqReturn

Spec == Init /\ [][Next]_vars

\* ---------------------------------------- claims on the sequence controller

Failed(result) == ~Truthy(Get(result, "success"))

\* What is known of one call of sequence: of a call on the stack, and of the
\* outermost call once it returned (its result is what the caller got).
ViewOfFrame(f) ==
    [steps |-> f.steps, log |-> f.results, calls |-> f.calls, returns |-> f.returns,
     ended |-> Finished(f), out |-> IF Finished(f) THEN ReturnValue(f) ELSE EmptyDict]

RanSequence ==
    /\ ret.state = "returned"
    /\ ret.op \in {"sequence", "run_routine"}
    /\ "results" \in DOMAIN ret.result

RetSteps ==
    IF ret.op = "sequence" THEN ret.arg
    ELSE LET routines == RoutinesOf(LoadConfig(ret.before))
         IN  routines[RoutineIndex(routines, ret.arg)].steps

ViewOfRet ==
    [steps |-> RetSteps, log |-> ret.result.results.v, calls |-> ret.calls,
     returns |-> ret.returns, ended |-> TRUE, out |-> ret.result]

Aborted(v) == v.ended /\ "stopped_at_step" \in DOMAIN v.out

AbortPolicy(v) ==
    \A r \in 1..Len(v.returns) :
        ( /\ Failed(v.returns[r].result)
          /\ Get(v.returns[r].raw, "on_error") # Continue )
        => /\ Aborted(v)
           /\ Get(v.out, "success") = PyBool(FALSE)
           /\ v.out.stopped_at_step = PyInt(v.returns[r].index)
           /\ r = Len(v.returns)
           /\ \A c \in 1..Len(v.calls) : v.calls[c].index <= v.returns[r].index

\* C1: in every call of sequence, when the step executed at index i returned
\* a result whose success is false and the step's on_error is not
\* "continue", the call has stopped with success false and stopped_at_step =
\* i, and dispatch was called for no index greater than i.
C1_AbortPolicy ==
    /\ \A k \in 1..Len(stack) : AbortPolicy(ViewOfFrame(stack[k]))
    /\ RanSequence => AbortPolicy(ViewOfRet)

\* A list of two steps whose first failed: the run returned stopped at 0
\* after one dispatch.
C1_Witness ==
    /\ RanSequence
    /\ ret.op = "sequence"
    /\ Len(ret.arg) = 2
    /\ ret.result.success = PyBool(FALSE)
    /\ Get(ret.result, "stopped_at_step") = PyInt(0)
    /\ Len(ret.calls) = 1

AllFailuresContinue(v) ==
    \A r \in 1..Len(v.returns) :
        Failed(v.returns[r].result) => Get(v.returns[r].raw, "on_error") = Continue

ContinuePolicy(v) ==
    (v.ended /\ AllFailuresContinue(v))
    => /\ Get(v.out, "success") = PyBool(TRUE)
       /\ Get(v.out, "steps_run") = PyInt(Len(v.log))
       /\ Get(v.out, "results") = PyList(v.log)
       /\ \A k \in 0..(Len(v.steps) - 1) :
             \E e \in 1..Len(v.log) : v.log[e]["_step"] = PyInt(k)
       /\ \A r \in 1..Len(v.returns) :
             Failed(v.returns[r].result)
             => \E e \in 1..Len(v.log) :
                   /\ v.log[e] = LogEntry(v.returns[r].result, v.returns[r].index,
                                          v.returns[r].name)
                   /\ Get(v.log[e], "success") = PyBool(FALSE)

\* C2: a call of sequence that returned, and in which every step that failed
\* carries on_error "continue", processed every index of the list and
\* returned success true with steps_run equal to the number of log entries;
\* the log entry of each failed step shows success false.
C2_ContinuePolicy ==
    /\ \A k \in 1..Len(stack) : ContinuePolicy(ViewOfFrame(stack[k]))
    /\ RanSequence => ContinuePolicy(ViewOfRet)

\* Routine c ran to its end: three log entries, the second step failed.
C2_Witness ==
    /\ RanSequence
    /\ ret.op = "run_routine"
    /\ ret.arg = RoutineC.name
    /\ ret.result.success = PyBool(TRUE)
    /\ Get(ret.result, "steps_run") = PyInt(3)
    /\ Failed(ret.returns[2].result)

OnlyActions(steps) == \A k \in 1..Len(steps) : "if" \notin DOMAIN DictOf(steps[k])

AbortLog(v) ==
    Aborted(v)
    => LET i    == v.out.stopped_at_step.v
           log  == v.out.results.v
           last == v.returns[Len(v.returns)]
       IN  /\ log = v.log
           /\ last.index = i
           /\ \A k \in 0..i : \E e \in 1..Len(log) : log[e]["_step"] = PyInt(k)
           /\ \A c \in 1..Len(v.calls) :
                 \E e \in 1..Len(log) :
                    /\ log[e]["_step"] = PyInt(v.calls[c].index)
                    /\ Get(log[e], "_name") = PyStr(v.calls[c].name)
           /\ \A e \in 1..Len(log) : log[e]["_step"].v <= i
           /\ \A d, e \in 1..Len(log) : d < e => log[d]["_step"].v <= log[e]["_step"].v
           /\ log[Len(log)] = LogEntry(last.result, i, last.name)
           /\ Failed(log[Len(log)])
           /\ OnlyActions(v.steps) => Len(log) = i + 1

\* C3: when a call of sequence aborts at index i, the log of its result
\* holds, in order of execution, an entry for every index 0..i and for every
\* dispatched step, and none for a later index; the last entry is the failing
\* result tagged with i and the step's name; a list of action steps only
\* gives exactly i+1 entries.
C3_AbortLog ==
    /\ \A k \in 1..Len(stack) : AbortLog(ViewOfFrame(stack[k]))
    /\ RanSequence => AbortLog(ViewOfRet)

\* Routine m, three action steps: the second failed, the run stopped at 1
\* with two log entries.
C3_Witness ==
    /\ RanSequence
    /\ ret.op = "run_routine"
    /\ ret.arg = RoutineM.name
    /\ Len(RetSteps) = 3
    /\ OnlyActions(RetSteps)
    /\ Get(ret.result, "stopped_at_step") = PyInt(1)
    /\ Len(ret.result.results.v) = 2

\* C4: in every call of sequence the executed steps have pairwise different
\* names, and the context holds under each step's name the result that step
\* wrote (no later step overwrote or removed it).
C4_ContextAppendOnly ==
    \A k \in 1..Len(stack) :
        LET f == stack[k]
        IN  /\ \A p, q \in 1..Len(f.returns) : p # q => f.returns[p].name # f.returns[q].name
            /\ \A r \in 1..Len(f.returns) :
                  /\ f.returns[r].name \in DOMAIN f.context
                  /\ f.context[f.returns[r].name] = f.returns[r].result

\* C5: no call of sequence or run_routine ends with an exception instead of
\* a result.
C5_NoUncaughtFault == ret.state # "raised"

\* C11: the steps_run of a run that ran to its end is the number of
\* positions for which dispatch was called (a conditional step whose branch
\* ran counts once, one that took no branch counts zero).
C11_StepsRunCountsDispatches ==
    (RanSequence /\ "steps_run" \in DOMAIN ret.result)
    => ret.result.steps_run = PyInt(Len(ret.calls))

IsMapping(val) == val.t = "dict" /\ DOMAIN val.v # {}

\* A conditional step with a then and an else that are action mappings.
TwoBranches(item) ==
    /\ item.t = "dict"
    /\ "if" \in DOMAIN item.v
    /\ IsMapping(Get(item.v, "then"))
    /\ IsMapping(Get(item.v, "else"))

BranchWord(met) == IF met THEN "then" ELSE "else"

\* The log and the dispatches of a call agree on every two-branch
\* conditional step that was processed: one condition entry, whose
\* branch_taken follows condition_met, and one dispatch, of that branch.
BranchesAgree(v) ==
    \A e \in 1..Len(v.log) :
        ( /\ "_type" \in DOMAIN v.log[e]
          /\ TwoBranches(v.steps[v.log[e]["_step"].v + 1]) )
        => LET i    == v.log[e]["_step"].v
               item == v.steps[i + 1].v
               met  == v.log[e].condition_met.v
           IN  /\ v.log[e].condition = item["if"]
               /\ v.log[e].branch_taken = PyStr(<<BranchWord(met)>>)
               /\ \E c \in 1..Len(v.calls) :
                     /\ v.calls[c].index = i
                     /\ v.calls[c].raw = item[BranchWord(met)].v
                     /\ \A d \in 1..Len(v.calls) : v.calls[d].index = i => d = c

\* One iteration on a two-branch conditional step: the condition is
\* evaluated against the context of that moment, its entry is logged, and
\* the branch it selects is the step dispatched.
BranchStep ==
    ( /\ Looping
      /\ TwoBranches(Top.steps[Top.i + 1])
      /\ Len(stack') >= Len(stack) )
    => LET item == Top.steps[Top.i + 1].v
           met  == EvalCondition(Stringify(item["if"]), Top.context)
           f    == stack'[Len(stack)]
       IN  /\ Len(f.calls) = Len(Top.calls) + 1
           /\ f.calls[Len(f.calls)].index = Top.i
           /\ f.calls[Len(f.calls)].raw = item[BranchWord(met)].v
           /\ Len(f.results) > Len(Top.results)
           /\ f.results[Len(Top.results) + 1]
                 = [k \in {"_step", "_type", "condition", "condition_met", "branch_taken"} |->
                      CASE k = "_step"         -> PyInt(Top.i)
                        [] k = "_type"         -> PyStr(<<"condition">>)
                        [] k = "condition"     -> item["if"]
                        [] k = "condition_met" -> PyBool(met)
                        [] k = "branch_taken"  -> PyStr(<<BranchWord(met)>>)]

\* C12: a conditional step with a then and an else action mapping executes
\* exactly one branch at its index, then if and only if the condition is
\* true against the current context, else otherwise; the condition entry
\* records the condition text, condition_met and the branch that ran, and
\* the other branch is never dispatched.
C12_ExactlyOneBranch ==
    /\ [](\A k \in 1..Len(stack) : BranchesAgree(ViewOfFrame(stack[k])))
    /\ [](RanSequence => BranchesAgree(ViewOfRet))
    /\ [][BranchStep]_vars

\* A read as a, then a conditional step on {a.value}: the condition was
\* met and the then branch ran.
C12_Witness ==
    /\ RanSequence
    /\ ret.op = "sequence"
    /\ ret.arg = <<StepReadA, StepIf>>
    /\ Len(ret.calls) = 2
    /\ ret.calls[2].raw = StepReadAContinue.v
    /\ ret.result.results.v[2] = ConditionEntry(1, StepIf.v["if"], TRUE, StepReadAContinue)

\* The same list, the condition not met: the else branch ran.
C12_WitnessElse ==
    /\ RanSequence
    /\ ret.op = "sequence"
    /\ ret.arg = <<StepReadA, StepIf>>
    /\ Len(ret.calls) = 2
    /\ ret.calls[2].raw = StepRead.v

EngineKeys == {"as", "on_error", "if", "then", "else"}

\* C13: the payload of every dispatch of a call of sequence holds none of
\* the keys as, on_error, if, then, else.
C13_PayloadStripped ==
    /\ \A k \in 1..Len(stack) :
          \A c \in 1..Len(stack[k].calls) :
             DOMAIN stack[k].calls[c].payload \cap EngineKeys = {}
    /\ RanSequence =>
          \A c \in 1..Len(ret.calls) : DOMAIN ret.calls[c].payload \cap EngineKeys = {}

\* The fields of raw that are a reference {name.field} to a field the
\* result exposes.
RefersTo(raw, key, name, result) ==
    \E fld \in DOMAIN result : raw[key] = PyStr(Dotted(name, <<fld>>))

FieldReferred(raw, key, name, result) ==
    CHOOSE fld \in DOMAIN result : raw[key] = PyStr(Dotted(name, <<fld>>))

\* Every result dispatch returned to the call was stored under the step's
\* unresolved as value, or under step_i, and every later dispatch whose raw
\* step refers to a field of that result got the stringified field.
StoredAndResolved(f) ==
    /\ \A r \in 1..Len(f.returns) :
          /\ f.returns[r].name = IF "as" \in DOMAIN f.returns[r].raw
                                 THEN f.returns[r].raw.as.v
                                 ELSE <<"step_">> \o IntToStr(f.returns[r].index)
          /\ f.returns[r].name \in DOMAIN f.context
          /\ r = Len(f.returns) => f.context[f.returns[r].name] = f.returns[r].result
    /\ \A r \in 1..Len(f.returns), c \in 1..Len(f.calls) :
          f.returns[r].index < f.calls[c].index
          => \A key \in DOMAIN f.calls[c].raw :
                RefersTo(f.calls[c].raw, key, f.returns[r].name, f.returns[r].result)
                => f.calls[c].payload[key]
                      = PyStr(Stringify(f.returns[r].result[
                            FieldReferred(f.calls[c].raw, key, f.returns[r].name,
                                          f.returns[r].result)]))

\* C16: every step executed at position i stores its result under its
\* unresolved as value, or under step_i without as, and every later step of
\* the run that refers to {name.field} gets the stringified field of that
\* result.
C16_StoredUnderNameAndReferenced ==
    \A k \in 1..Len(stack) : StoredAndResolved(stack[k])

\* The context made of the results of the steps below index i only: under
\* each of their names, the result of the last of them.
Below(v, i) == {r \in 1..Len(v.returns) : v.returns[r].index < i}

ContextBelow(v, i) ==
    [n \in {v.returns[r].name : r \in Below(v, i)} |->
        v.returns[CHOOSE r \in Below(v, i) :
                     /\ v.returns[r].name = n
                     /\ \A q \in Below(v, i) : v.returns[q].name = n => q <= r].result]

InOrder(v) ==
    \* dispatch is called in strictly increasing index order, once per index
    /\ \A c, d \in 1..Len(v.calls) : c < d => v.calls[c].index < v.calls[d].index
    \* and only after every earlier call returned
    /\ Len(v.returns) \in {Len(v.calls) - 1, Len(v.calls)}
    /\ \A r \in 1..Len(v.returns) :
          /\ v.returns[r].index = v.calls[r].index
          /\ v.returns[r].raw = v.calls[r].raw
    \* the templates of a step see the results of the steps below it only
    /\ \A c \in 1..Len(v.calls) :
          v.calls[c].payload
              = ApplyTemplates(PyDict(v.calls[c].raw),
                               ContextBelow(v, v.calls[c].index)).v
    \* and so does its condition
    /\ \A e \in 1..Len(v.log) :
          "_type" \in DOMAIN v.log[e]
          => v.log[e].condition_met
                = PyBool(EvalCondition(Stringify(v.log[e].condition),
                                       ContextBelow(v, v.log[e]["_step"].v)))

\* C17: within one call of sequence dispatch is called in strictly
\* increasing index order, at most once per index and only after the call
\* for every earlier index returned, and the condition and the templates of
\* step i are evaluated against the results of the steps below i only.
C17_InOrderAgainstEarlierResults ==
    /\ \A k \in 1..Len(stack) : InOrder(ViewOfFrame(stack[k]))
    /\ RanSequence => InOrder(ViewOfRet)

\* A read as a, then a set whose level is {a.pin}: the second dispatch got
\* the pin the first returned.
C17_Witness ==
    /\ RanSequence
    /\ ret.arg = <<StepReadA, StepSet>>
    /\ Len(ret.calls) = 2
    /\ ret.calls[2].payload.level = PyStr(<<"1", "7">>)
    /\ ret.returns[1].result.pin = PyInt(17)

\* The context of a call holds the names this call produced and no other;
\* a step or a condition evaluated before the call produced a result is
\* resolved against the empty context: its references stay as they are.
OwnContext(f) ==
    /\ DOMAIN f.context = {f.returns[r].name : r \in 1..Len(f.returns)}
    /\ \A c \in 1..Len(f.calls) :
          (\A r \in 1..Len(f.returns) : f.returns[r].index >= f.calls[c].index)
          => f.calls[c].payload = ApplyTemplates(PyDict(f.calls[c].raw), NoContext).v
    /\ \A e \in 1..Len(f.results) :
          ( /\ "_type" \in DOMAIN f.results[e]
            /\ \A r \in 1..Len(f.returns) :
                  f.returns[r].index >= f.results[e]["_step"].v )
          => f.results[e].condition_met
                = PyBool(EvalCondition(Stringify(f.results[e].condition), NoContext))

\* A call of sequence starts with an empty context and nothing done.
StartsEmpty ==
    Len(stack') > Len(stack)
    => /\ stack'[Len(stack')].context = NoContext
       /\ stack'[Len(stack')].returns = <<>>
       /\ stack'[Len(stack')].i = 0

\* C19: every run starts with an empty context, and no result stored by
\* another run is visible to its conditions or templates: a reference to a
\* name the run has not produced yet stays a literal placeholder.
C19_FreshContext ==
    /\ [](\A k \in 1..Len(stack) : OwnContext(stack[k]))
    /\ [][StartsEmpty]_vars

\* Routine e runs f a second time: the first run of f stored a result under
\* a, and the condition on {a.pin} of the second run is not met.
C19_Witness ==
    /\ Len(stack) = 2
    /\ stack[1].routine = PyStr(RoutineE.name)
    /\ Len(stack[1].returns) = 1
    /\ \E e \in 1..Len(stack[1].returns[1].result.results.v) :
          Get(stack[1].returns[1].result.results.v[e], "_name") = PyStr(<<"a">>)
    /\ Len(stack[2].results) = 1
    /\ stack[2].results[1].condition = StepIfThen.v["if"]
    /\ stack[2].results[1].condition_met = PyBool(FALSE)
    /\ stack[2].context = NoContext

\* The condition entries of a call agree with what ran: an entry logged
\* "none" has no dispatch and no result at its index and the call did not
\* stop there; an entry logged "then" or "else" has a dispatch at its index.
NoneMeansNothingRan(v) ==
    \A e \in 1..Len(v.log) :
        "_type" \in DOMAIN v.log[e]
        => LET i == v.log[e]["_step"].v
           IN  IF v.log[e].branch_taken = PyStr(<<"none">>)
               THEN /\ \A c \in 1..Len(v.calls) : v.calls[c].index # i
                    /\ \A r \in 1..Len(v.returns) : v.returns[r].index # i
                    /\ Get(v.out, "stopped_at_step") # PyInt(i)
               ELSE \E c \in 1..Len(v.calls) : v.calls[c].index = i

\* C20: branch_taken is "none" if and only if dispatch is not called for
\* that index and no result is stored for it, a selected branch that is an
\* empty mapping included, and a conditional step logged "none" never makes
\* the run abort.
C20_NoneMeansNothingRan ==
    /\ \A k \in 1..Len(stack) : NoneMeansNothingRan(ViewOfFrame(stack[k]))
    /\ RanSequence => NoneMeansNothingRan(ViewOfRet)

\* ------------------------------------------- claims on the pure functions

OrderingOps == { <<">", "=">>, <<"<", "=">>, <<">">>, <<"<">> }

\* What the evaluator of the current input found: the resolved text, the
\* operator, and the two operands the text splits into.
EvalResolved == ResolveTemplate(InputText(ein), ein.context)

EvalFoundOp == Operators[FoundOp(EvalResolved)]

EvalOperands == SplitOnce(EvalResolved, EvalFoundOp)

EvalNonNumeric ==
    /\ eout.state = "evaluated"
    /\ FoundOp(EvalResolved) > 0
    /\ ~(IsFloat(EvalOperands[1]) /\ IsFloat(EvalOperands[2]))

\* C6: when the operator found is an ordering operator (>, <, >=, <=) and
\* at least one operand does not parse as a number, the condition is false,
\* for every pair of operands.
C6_OrderingOfNonNumericIsFalse ==
    (EvalNonNumeric /\ EvalFoundOp \in OrderingOps) => eout.value = FALSE

\* C7: when an operand does not parse as a number, == is true exactly when
\* the two trimmed operands are equal texts and != is true exactly when
\* they are different texts.
C7_StringFallback ==
    /\ (EvalNonNumeric /\ EvalFoundOp = <<"=", "=">>)
           => (eout.value <=> (Strip(EvalOperands[1]) = Strip(EvalOperands[2])))
    /\ (EvalNonNumeric /\ EvalFoundOp = <<"!", "=">>)
           => (eout.value <=> (Strip(EvalOperands[1]) # Strip(EvalOperands[2])))

\* The texts the claim names false, in the spellings of the probe texts.
FalsySpellings ==
    { <<>>, <<"false">>, <<"False">>, <<"FALSE">>, <<"0">>, <<"none">>, <<"None">>,
      <<"null">>, <<"NULL">> }

EvalProbed ==
    /\ eout.state = "evaluated"
    /\ ein.kind = "probe"
    /\ FoundOp(EvalResolved) = 0

\* C14: when the resolved text holds no operator token, the condition is
\* false exactly when the trimmed, lower-cased text is false, 0, none, null
\* or empty, and true for every other text.
C14_TruthinessProbe ==
    EvalProbed =>
        (eout.value <=> ResolveTemplate(ein.text, ein.context) \notin FalsySpellings)

\* A field that resolved to None, between blanks: false.
C14_Witness ==
    /\ EvalProbed
    /\ ein.text = Dotted(<<"x">>, <<"value">>)
    /\ ein.context = [n \in {<<"x">>} |-> ResultNull]
    /\ ein.padl = 1
    /\ eout.value = FALSE

\* A text that is none of the false ones: true.
C14_WitnessTrue ==
    /\ EvalProbed
    /\ ein.text = <<"0", ".", "0">>
    /\ eout.value = TRUE

\* What the claim says a generated placeholder becomes.  A placeholder is a
\* "{", a run of symbols other than "}", and a "}".
Exposes(context, name, field) ==
    /\ name \in DOMAIN context
    /\ Len(field) = 1
    /\ field[1] \in DOMAIN context[name]

ExpectedPlaceholder(ph, context) ==
    IF \E n \in RefNames, f \in RefFields : ph = Dotted(n, f) /\ Exposes(context, n, f)
    THEN LET nf == CHOOSE nf \in RefNames \X RefFields :
                       ph = Dotted(nf[1], nf[2]) /\ Exposes(context, nf[1], nf[2])
         IN  Stringify(context[nf[1]][nf[2][1]])
    ELSE ph

\* A plain {name} whose name is in the context: the claim leaves its
\* replacement open.
BareInContext(ph, context) == \E n \in DOMAIN context : ph = Bare(n)

\* C8: a dotted placeholder {name.field} is replaced by the stringified
\* field exactly when the context has the entry and the entry exposes the
\* field; otherwise, and for a plain {name} not in the context, it stays
\* verbatim; a text without "{" is returned unchanged.
C8_TemplateResolution ==
    eout.state = "resolved" =>
        /\ (~BareInContext(ein.ph1, ein.context) /\ ~BareInContext(ein.ph2, ein.context))
              => eout.value = ein.pre \o ExpectedPlaceholder(ein.ph1, ein.context)
                                \o ein.mid \o ExpectedPlaceholder(ein.ph2, ein.context)
        /\ ~Contains(<<"{">>, InputText(ein)) => eout.value = InputText(ein)

\* A text whose first placeholder is replaced by a field of the context and
\* whose second one names an entry the context lacks.
C8_Witness ==
    /\ eout.state = "resolved"
    /\ ein.ph1 = Dotted(<<"x">>, <<"pin">>)
    /\ Exposes(ein.context, <<"x">>, <<"pin">>)
    /\ ein.ph2 = Dotted(<<"z">>, <<"pin">>)
    /\ eout.value = ein.pre \o <<"1", "7">> \o ein.mid \o ein.ph2

\* ------------------------------------------------------ the routine store

StepRunN == PyDict([command |-> Cmd("run_routine"), name |-> PyStr(<<"n">>)])

\* The step lists saved: none, one read, and a condition that is not met
\* followed by a run of routine n.
StoreSteps == { <<>>, <<StepRead>>, <<StepIfThen, StepRunN>> }

StoreNames == { <<"m">>, <<"n">> }

StoreDescriptions == { <<>>, <<"desc">> }

\* No file, a document without routines, a document with none.
StoreFiles ==
    { [exists |-> FALSE],
      SaveConfig([devices |-> Devices]),
      SaveConfig([devices |-> Devices, routines |-> <<>>]) }

StoreInit ==
    /\ file \in StoreFiles
    /\ stack = <<>>
    /\ ret = [op |-> "none", state |-> "none"]
    /\ ein = [kind |-> "none"]
    /\ eout = [state |-> "none"]
    /\ gpio = AllLow

StoreNext ==
    \/ \E name \in StoreNames, steps \in StoreSteps, description \in StoreDescriptions :
          CallSaveRoutine(name, steps, description)
    \/ \E name \in StoreNames : CallDeleteRoutine(name)
    \/ \E name \in StoreNames : CallRunRoutine(name)
    \/ CallListRoutines
    \/ SeqSkip
    \/ SeqStep
    \/ SeqCall
    \/ SeqRaise
    \/ SeqReturnNested
    \/ SeqReturn

SpecStore == StoreInit /\ [][StoreNext]_vars

\* ------------------------------------------- claims on the routine store

StoredBefore == RoutinesOf(LoadConfig(ret.before))

StoredNow == RoutinesOf(LoadConfig(file))

Did(op) == ret.op = op /\ ret.state = "returned"

NotFoundText(name) == PyStr(<<"Routine", " ", "'">> \o name \o <<"'", " ", "not", " ", "found.">>)

\* After save_routine the store holds one routine of that name, with the
\* description and the steps saved; after a successful delete_routine it
\* holds none of that name.
StoreHolds ==
    /\ Did("save_routine") =>
          /\ \E k \in 1..Len(StoredNow) :
                /\ StoredNow[k] = [name |-> ret.arg.name, steps |-> ret.arg.steps,
                                   description |-> ret.arg.description]
                /\ \A j \in 1..Len(StoredNow) : StoredNow[j].name = ret.arg.name => j = k
          /\ ret.result.success = PyBool(TRUE)
    /\ (Did("delete_routine") /\ ret.result.success = PyBool(TRUE)) =>
          \A k \in 1..Len(StoredNow) : StoredNow[k].name # ret.arg

\* A save of the arguments just saved leaves the file as it is.
SaveAgain ==
    ( /\ Did("save_routine")
      /\ ret'.op = "save_routine"
      /\ ret'.arg = ret.arg )
    => file' = file

\* Running the name just deleted gives the failed result of a missing name.
RunAfterDelete ==
    ( /\ Did("delete_routine")
      /\ ret.result.success = PyBool(TRUE)
      /\ ret'.op = "run_routine"
      /\ ret'.arg = ret.arg )
    => /\ ret'.state = "returned"
       /\ ret'.result.success = PyBool(FALSE)
       /\ ret'.result.error = NotFoundText(ret.arg)
       /\ stack' = <<>>

\* C9: after save_routine(name, steps, description) the routine stored under
\* name is exactly that description and those steps, whatever was stored
\* before, and the same save again leaves the store unchanged; after a
\* successful delete_routine(name) the name is not stored and run_routine(name)
\* answers that the routine is not found.
C9_SaveDeleteRoundTrip ==
    /\ []StoreHolds
    /\ [][SaveAgain]_vars
    /\ [][RunAfterDelete]_vars

\* A save replaced a routine stored with another description and other steps.
C9_Witness ==
    /\ Did("save_routine")
    /\ \E k \in 1..Len(StoredBefore) :
          /\ StoredBefore[k].name = ret.arg.name
          /\ StoredBefore[k].steps # ret.arg.steps
          /\ StoredBefore[k].description # ret.arg.description
    /\ Len(StoredNow) = 2

Missing == \A k \in 1..Len(StoredBefore) : StoredBefore[k].name # ret.arg

\* C10: run_routine of a name that is not stored returns a failed result
\* with exactly the stored names, dispatches no step and leaves the file as
\* it was; delete_routine of a name that is not stored returns a failed
\* result and leaves the file as it was.
C10_MissingName ==
    /\ (Did("run_routine") /\ Missing) =>
          /\ ret.result = [success |-> PyBool(FALSE), error |-> NotFoundText(ret.arg),
                           available_routines |->
                               PyList([k \in 1..Len(StoredNow) |-> PyStr(StoredNow[k].name)])]
          /\ ret.calls = <<>>
          /\ stack = <<>>
          /\ file = ret.before
    /\ (ret.op = "run_routine" /\ ret.state = "running") => ~Missing
    /\ (Did("delete_routine") /\ Missing) =>
          /\ ret.result = [success |-> PyBool(FALSE), error |-> NotFoundText(ret.arg)]
          /\ file = ret.before

\* run_routine of a missing name while a routine of another name is stored.
C10_Witness ==
    /\ Did("run_routine")
    /\ Missing
    /\ Len(StoredNow) = 1

\* delete_routine of a missing name while a routine of another name is stored.
C10_WitnessDelete ==
    /\ Did("delete_routine")
    /\ Missing
    /\ Len(StoredNow) = 1
DevicesOf(f) ==
    IF "devices" \in DOMAIN LoadConfig(f) THEN LoadConfig(f).devices ELSE NoDevices

\* The routines stored under another name, in their order.
Others(f, name) == SelectSeq(RoutinesOf(LoadConfig(f)), LAMBDA r : r.name # name)

\* What a store operation leaves alone: the devices always; for save and
\* delete the routines of every other name; for list and run the file.
StoreFrame ==
    /\ DevicesOf(file') = DevicesOf(file)
    /\ ret'.op = "save_routine" => Others(file', ret'.arg.name) = Others(file, ret'.arg.name)
    /\ ret'.op = "delete_routine" => Others(file', ret'.arg) = Others(file, ret'.arg)
    /\ ret'.op \in {"list_routines", "run_routine"} => file' = file

\* list_routines returns one row for each stored routine, in the stored
\* order: its name, the number of its steps and its description.
ListExact ==
    Did("list_routines") =>
        /\ ret.result.success = PyBool(TRUE)
        /\ Len(ret.result.routines.v) = Len(StoredNow)
        /\ \A k \in 1..Len(StoredNow) :
              ret.result.routines.v[k]
                  = [name |-> PyStr(StoredNow[k].name),
                     steps |-> PyInt(Len(StoredNow[k].steps)),
                     description |-> PyStr(StoredNow[k].description)]
        /\ \A j, k \in 1..Len(StoredNow) : StoredNow[j].name = StoredNow[k].name => j = k

\* C18: save_routine, delete_routine and list_routines leave the devices of
\* the document as they were, a save or delete of a name leaves the routines
\* of every other name unchanged, and list_routines returns exactly the
\* stored routines (those saved and not deleted since), each with the step
\* count and the description of its latest save.
C18_StoreFrame ==
    /\ []ListExact
    /\ [][StoreFrame]_vars

\* A save while a routine of another name is stored.
C18_Witness ==
    /\ Did("save_routine")
    /\ DevicesOf(file) = Devices
    /\ \E k \in 1..Len(StoredBefore) : StoredBefore[k].name # ret.arg.name
    /\ Len(StoredNow) = 2

\* list_routines with two routines stored.
C18_WitnessList ==
    /\ Did("list_routines")
    /\ Len(ret.result.routines.v) = 2

\* ------------------------------------------------------------------ toggle

Relay == <<"relay">>

\* The devices of the toggle configuration: lamp on pin 17, and relay on pin
\* 27, registered with active_low true.
ToggleDevices ==
    [n \in {Lamp, Relay} |->
        IF n = Lamp
        THEN [pin |-> PyInt(17), type |-> PyStr(<<"output">>)]
        ELSE [pin |-> PyInt(27), type |-> PyStr(<<"output">>),
              active_low |-> PyBool(TRUE)]]

\* The device dict _resolve returns for an identifier it resolves: the
\* registered device of that name or of that pin, or a default output device.
DeviceOf(identifier, doc) ==
    LET text == Stringify(identifier)
        devices == IF "devices" \in DOMAIN doc THEN doc.devices ELSE NoDevices
        pin == PyInt(DigitsVal(Strip(text)))
    IN  IF text \in DOMAIN devices THEN devices[text]
        ELSE IF \E n \in DOMAIN devices : devices[n].pin = pin
        THEN devices[CHOOSE n \in DOMAIN devices : devices[n].pin = pin]
        ELSE [pin |-> pin, type |-> PyStr(<<"output">>)]

\* device.get("active_low", False)
ActiveLow(device) == Truthy(Get(device, "active_low"))

\* _read_pin(pin) of a pin whose level is known: the tool reports that level
\* or fails.
ReadPinNow(pin) ==
    { r \in ReadPinResults(pin) : "value" \in DOMAIN r => r.value = PyBool(gpio[pin.v]) }

\* _write_pin(pin, value): the pin is driven to value, or the tool fails.
WritePinResults(pin, value) ==
    { [success |-> PyBool(TRUE), pin |-> pin, value |-> PyBool(value),
       backend |-> PyStr(<<"pinctrl">>)],
      Failure(<<"stderr">>) }

\* The levels once _write_pin returned result.
Driven(pin, value, result) ==
    IF Truthy(Get(result, "success")) THEN [gpio EXCEPT ![pin.v] = value] ELSE gpio

\* What a pin command returned: the levels before it, and, for toggle, the
\* result of its read.
PinReturned(op, identifier, current, result) ==
    [op |-> op, state |-> "returned", arg |-> identifier, before |-> file,
     result |-> result, calls |-> <<>>, returns |-> <<>>,
     prior |-> gpio, current |-> current]

\* activate (on = TRUE) and deactivate (on = FALSE): the level written is
\* not active_low, respectively active_low.
WriteLogical(op, identifier, current, on) ==
    LET doc == LoadConfig(file)
        dev == ResolveDevice(identifier, doc)
    IN  IF ~dev.ok
        THEN /\ ret' = PinReturned(op, identifier, current,
                                   Failure(<<"not_a_registered_name">>))
             /\ gpio' = gpio
        ELSE LET value == IF on THEN ~ActiveLow(DeviceOf(identifier, doc))
                          ELSE ActiveLow(DeviceOf(identifier, doc))
             IN  \E w \in WritePinResults(dev.pin, value) :
                    /\ ret' = PinReturned(op, identifier, current,
                                          WithDevice(w, identifier, dev.description))
                    /\ gpio' = Driven(dev.pin, value, w)

\* activate(identifier)
CallActivate(identifier) ==
    /\ Idle
    /\ WriteLogical("activate", identifier, PyNone, TRUE)
    /\ UNCHANGED <<file, stack, ein, eout>>

\* deactivate(identifier)
CallDeactivate(identifier) ==
    /\ Idle
    /\ WriteLogical("deactivate", identifier, PyNone, FALSE)
    /\ UNCHANGED <<file, stack, ein, eout>>

\* toggle(identifier): read, then deactivate when the value read is true,
\* activate otherwise.
CallToggle(identifier) ==
    /\ Idle
    /\ \E current \in ReadResults(identifier, LoadConfig(file)) :
          /\ "value" \in DOMAIN current => current.value = PyBool(gpio[current.pin.v])
          /\ IF ~Truthy(Get(current, "success"))
             THEN /\ ret' = PinReturned("toggle", identifier, current, current)
                  /\ gpio' = gpio
             ELSE WriteLogical("toggle", identifier, current,
                               ~Truthy(Get(current, "value")))
    /\ UNCHANGED <<file, stack, ein, eout>>

ToggleIds ==
    { PyStr(Lamp), PyStr(Relay), PyStr(<<"1", "7">>), PyInt(27), PyStr(<<"5">>),
      PyStr(<<"zz">>) }

ToggleInit ==
    /\ file = SaveConfig([devices |-> ToggleDevices])
    /\ stack = <<>>
    /\ ret = [op |-> "none", state |-> "none"]
    /\ ein = [kind |-> "none"]
    /\ eout = [state |-> "none"]
    /\ gpio \in [Pins -> BOOLEAN]

ToggleNext ==
    \/ \E identifier \in ToggleIds : CallToggle(identifier)
    \/ \E identifier \in ToggleIds : CallActivate(identifier)
    \/ \E identifier \in ToggleIds : CallDeactivate(identifier)

SpecToggle == ToggleInit /\ [][ToggleNext]_vars

\* C15: whenever toggle read the pin successfully and its write succeeded,
\* the level written is the opposite of the level read, and the pin is left
\* at the opposite of the level it had, for every device.
C15_ToggleInverts ==
    ( /\ Did("toggle")
      /\ Truthy(Get(ret.current, "success"))
      /\ Truthy(Get(ret.result, "success")) )
    => /\ ret.result.value = PyBool(~ret.current.value.v)
       /\ gpio[ret.result.pin.v] = ~ret.prior[ret.result.pin.v]
\* ------------------------------------------------- termination of a run

\* A stored routine is running inside a run of itself: two calls on the
\* stack were made by run_routine for the same name.
RunsItself ==
    \E a, b \in 1..Len(stack) :
       /\ a < b
       /\ stack[a].routine # PyNone
       /\ stack[a].routine = stack[b].routine

\* The step that ends the run: the outermost call leaves the stack.
RunEnds == stack # <<>> /\ stack' = <<>>

\* C21: every run terminates with a Run Result, also when its steps are
\* sequence or run_routine commands: a run in which a stored routine runs
\* itself by name ends by returning its Run Result.
C21_EveryRunReturns == [][(RunsItself /\ RunEnds) => ret'.state = "returned"]_vars

====
